---- MODULE Spec2Model ----
(***************************************************************************)
(* A model of the extension architecture of the syndication server:        *)
(*   - package plugins: Endpoint, APIPlugin (RegisterEndpoint), Plugins    *)
(*     (loadPlugins, APIPlugins);                                          *)
(*   - package plugins: APICtx / UserCtx, the identity-bound gateway to    *)
(*     package database;                                                   *)
(*   - package database: the queries UserCtx forwards to.                  *)
(* Go slices are modelled with their backing arrays (heap), because        *)
(* APIPlugin is copied by value and its copies share endpoint storage.     *)
(***************************************************************************)
EXTENDS Integers, Sequences, FiniteSets, TLC

VARIABLES
    heap,        \* backing arrays of the []Endpoint slices, by array id
    plugin,      \* the APIPlugin value RegisterEndpoint is being called on
    calls,       \* RegisterEndpoint calls made on plugin: <<[endpnt, err]>>
    before,      \* Endpoints() of plugin right before the last call
    paths,       \* loadPlugins' argument: the module paths, in order
    idx,         \* loadPlugins: index of the path the loop is at
    pc,          \* loadPlugins: stage of the loop body, "done" after return
    incoming,    \* loadPlugins: what initFunc() returned
    apiPlugins,  \* Plugins.apiPlugins
    kept,        \* per registry entry, the plugin value its module kept
    logged,      \* what the loader logged, in order
    nPost,       \* number of RegisterEndpoint calls made after loading
    db,          \* the tables of the database
    prev,        \* the tables right before the last UserCtx call
    ctx,         \* the context the running handler calls through
    ret,         \* the last UserCtx call: operation, arguments, result
    nWrites,     \* number of UserCtx calls that changed the database
    raised,      \* the DBErrors created, with what their methods returned
    now,         \* time.Now().Unix()
    lastTimeIDWasCreated,  \* package variable of database
    random32Int, \* package variable of database
    issued       \* the values createAPIID has returned, in order

regVars == <<heap, plugin, calls, before>>
loadVars == <<paths, idx, pc, incoming, apiPlugins, kept, logged, nPost>>
ctxVars == <<db, prev, ctx, ret, nWrites>>
pkgVars == <<raised, now, lastTimeIDWasCreated, random32Int, issued>>
vars == <<heap, plugin, calls, before, paths, idx, pc, incoming, apiPlugins,
          kept, logged, nPost, db, prev, ctx, ret, nWrites, raised, now,
          lastTimeIDWasCreated, random32Int, issued>>

----------------------------------------------------------------------------
(* Bounds of the model.                                                    *)

MaxCalls == 3    \* RegisterEndpoint calls on the plugin under test
MaxPaths == 3    \* length of the list of module paths
MaxPost == 1     \* RegisterEndpoint calls after NewPlugins returned
MaxWrites == 1   \* UserCtx calls that change the database
MaxErrs == 2     \* DBErrors created
MaxTicks == 2    \* seconds the clock advances
MaxIDs == 3      \* createAPIID calls

----------------------------------------------------------------------------
(* Strings.                                                                *)

Contains(s, sub) ==
    \E i \in 1..(Len(s) - Len(sub) + 1) : SubSeq(s, i, i + Len(sub) - 1) = sub

----------------------------------------------------------------------------
(* Endpoint, errors, slices.                                               *)

NilHandler == "nil"
Handlers == {NilHandler, "helloWorldHandler", "entriesHandler"}
Methods == {"", "GET", "get"}
Paths == {"", "/x", "/X"}

Endpoint(needsUser, path, method, group, handler) ==
    [NeedsUser |-> needsUser, Path |-> path, Method |-> method,
     Group |-> group, Handler |-> handler]

ZeroEndpoint == Endpoint(FALSE, "", "", "", NilHandler)

\* The endpoints RegisterEndpoint is called with.
EndpointInputs ==
    {Endpoint(FALSE, p, m, "api_test", h) : p \in Paths, m \in Methods, h \in Handlers}

NilError == [isNil |-> TRUE, ErrorMsg |-> ""]
APIPluginError(msg) == [isNil |-> FALSE, ErrorMsg |-> msg]

NilSlice == [arr |-> 0, len |-> 0, cap |-> 0]

\* The elements a slice shows: s[0:len(s)].
Elems(h, s) == IF s.arr = 0 THEN <<>> ELSE SubSeq(h[s.arr], 1, s.len)

\* append(s, e): in place when capacity is left, else into a new array of
\* doubled capacity (the growth of the Go runtime for small slices).
GoAppend(h, s, e) ==
    IF s.len < s.cap
    THEN [heap  |-> [h EXCEPT ![s.arr][s.len + 1] = e],
          slice |-> [s EXCEPT !.len = s.len + 1]]
    ELSE LET newcap == IF s.cap = 0 THEN 1 ELSE 2 * s.cap
             fresh  == [i \in 1..newcap |->
                           IF i <= s.len THEN h[s.arr][i]
                           ELSE IF i = s.len + 1 THEN e ELSE ZeroEndpoint]
         IN [heap  |-> Append(h, fresh),
             slice |-> [arr |-> Len(h) + 1, len |-> s.len + 1, cap |-> newcap]]

----------------------------------------------------------------------------
(* APIPlugin.                                                              *)

NewAPIPlugin(name) == [name |-> name, endpoints |-> NilSlice, path |-> ""]

Name(p) == p.name

\* incomingPlgn before initFunc has returned one.
NoIncoming == [plgn |-> NewAPIPlugin(""), type |-> "none", err |-> NilError]

Endpoints(h, p) == Elems(h, p.endpoints)

checkConflictingPathsPathOnly(h, p, incomingEndpnt) ==
    \E i \in 1..p.endpoints.len :
        h[p.endpoints.arr][i].Path = incomingEndpnt.Path

checkConflictingPaths(h, p, incomingEndpnt) ==
    \E i \in 1..p.endpoints.len :
        /\ h[p.endpoints.arr][i].Path = incomingEndpnt.Path
        /\ h[p.endpoints.arr][i].Method = incomingEndpnt.Method

ConflictErrorWithoutMethod(endpnt) ==
    APIPluginError("The path " \o endpnt.Path \o " already exists.")

ConflictError(endpnt) ==
    APIPluginError("The path " \o endpnt.Path \o "for method " \o endpnt.Method
                   \o " already exists.")

\* RegisterEndpoint with the method checked before the handler.
RegisterEndpointMethodFirst(h, p, endpnt) ==
    IF endpnt.Method = ""
    THEN [err |-> APIPluginError("A method is required."), p |-> p, heap |-> h]
    ELSE IF endpnt.Handler = NilHandler
    THEN [err |-> APIPluginError("A handler is required."), p |-> p, heap |-> h]
    ELSE IF endpnt.Path = ""
    THEN [err |-> APIPluginError("A path is required."), p |-> p, heap |-> h]
    ELSE IF checkConflictingPaths(h, p, endpnt)
    THEN [err |-> ConflictError(endpnt), p |-> p, heap |-> h]
    ELSE LET a == GoAppend(h, p.endpoints, endpnt)
         IN [err |-> NilError, p |-> [p EXCEPT !.endpoints = a.slice],
             heap |-> a.heap]

\* RegisterEndpoint without the scan for a conflicting route.
RegisterEndpointNoScan(h, p, endpnt) ==
    IF endpnt.Handler = NilHandler
    THEN [err |-> APIPluginError("A handler is required."), p |-> p, heap |-> h]
    ELSE IF endpnt.Method = ""
    THEN [err |-> APIPluginError("A method is required."), p |-> p, heap |-> h]
    ELSE IF endpnt.Path = ""
    THEN [err |-> APIPluginError("A path is required."), p |-> p, heap |-> h]
    ELSE LET a == GoAppend(h, p.endpoints, endpnt)
         IN [err |-> NilError, p |-> [p EXCEPT !.endpoints = a.slice],
             heap |-> a.heap]

\* The result of p.RegisterEndpoint(endpnt) on heap h: the error returned, p
\* afterwards and the heap afterwards.
RegisterEndpoint(h, p, endpnt) ==
    IF endpnt.Handler = NilHandler
    THEN [err |-> APIPluginError("A handler is required."), p |-> p, heap |-> h]
    ELSE IF endpnt.Method = ""
    THEN [err |-> APIPluginError("A method is required."), p |-> p, heap |-> h]
    ELSE IF endpnt.Path = ""
    THEN [err |-> APIPluginError("A path is required."), p |-> p, heap |-> h]
    ELSE IF checkConflictingPaths(h, p, endpnt)
    THEN [err |-> ConflictError(endpnt), p |-> p, heap |-> h]
    ELSE LET a == GoAppend(h, p.endpoints, endpnt)
         IN [err |-> NilError, p |-> [p EXCEPT !.endpoints = a.slice],
             heap |-> a.heap]

----------------------------------------------------------------------------
(* package database: rows, errors and the queries UserCtx forwards to.     *)
(* A query built on db.Model(user) and ended by Related or by              *)
(* Association(..).Find is restricted to the rows whose user_id is the     *)
(* user's ID; one ended by First(&out, ..) is not: First queries out's     *)
(* table with the inline condition alone.                                  *)

Markers == {"None", "Read", "Unread", "Any"}

NilDBError == [kind |-> "nil", msg |-> ""]
NotFound(msg) == [kind |-> "NotFound", msg |-> msg]
BadRequest(msg) == [kind |-> "BadRequest", msg |-> msg]

Conflict(msg) == [kind |-> "Conflict", msg |-> msg]
Unauthorized(msg) == [kind |-> "Unauthorized", msg |-> msg]
InternalError(msg) == [kind |-> "InternalError", msg |-> msg]

ErrorKinds == {"Conflict", "NotFound", "BadRequest", "Unauthorized", "InternalError"}

\* Messages the package creates its errors with, and the empty one.
Messages ==
    {"", "User already exists", "Category does not exist",
     "Request should include a valid marker", "Failed to authenticate user",
     "Failed to authenticate user due to an internal error"}

\* The composite literal Kind{msg}.
NewDBError(kind, msg) ==
    CASE kind = "Conflict" -> Conflict(msg)
      [] kind = "NotFound" -> NotFound(msg)
      [] kind = "BadRequest" -> BadRequest(msg)
      [] kind = "Unauthorized" -> Unauthorized(msg)
      [] OTHER -> InternalError(msg)

\* Code with the codes of NotFound and BadRequest exchanged.
CodeExchanged(e) ==
    CASE e.kind = "Conflict" -> 409
      [] e.kind = "NotFound" -> 400
      [] e.kind = "BadRequest" -> 404
      [] e.kind = "Unauthorized" -> 401
      [] OTHER -> 500

\* The methods of DBError.
Code(e) ==
    CASE e.kind = "Conflict" -> 409
      [] e.kind = "NotFound" -> 404
      [] e.kind = "BadRequest" -> 400
      [] e.kind = "Unauthorized" -> 401
      [] OTHER -> 500

String(e) ==
    CASE e.kind = "Conflict" -> "Conflict"
      [] e.kind = "NotFound" -> "Not Found"
      [] e.kind = "BadRequest" -> "Bad Request"
      [] e.kind = "Unauthorized" -> "Unauthorized"
      [] OTHER -> "Internal Error"

Error(e) == e.msg

\* The clock at the start of the process, in seconds.
Epoch == 1500000000

\* strconv.FormatInt(n, 10) for n >= 0, as bytes.
RECURSIVE FormatInt(_)
FormatInt(n) ==
    IF n < 10 THEN <<48 + n>> ELSE FormatInt(n \div 10) \o <<48 + (n % 10)>>

Base64Alphabet == "ABCDEFGHIJKLMNOPQRSTUVWXYZabcdefghijklmnopqrstuvwxyz0123456789+/"
Base64Char(i) == SubSeq(Base64Alphabet, i + 1, i + 1)

\* base64.StdEncoding.EncodeToString
RECURSIVE EncodeToString(_)
EncodeToString(b) ==
    IF Len(b) = 0 THEN ""
    ELSE IF Len(b) = 1
    THEN Base64Char(b[1] \div 4) \o Base64Char((b[1] % 4) * 16) \o "=="
    ELSE IF Len(b) = 2
    THEN Base64Char(b[1] \div 4) \o Base64Char((b[1] % 4) * 16 + b[2] \div 16)
         \o Base64Char((b[2] % 16) * 4) \o "="
    ELSE Base64Char(b[1] \div 4) \o Base64Char((b[1] % 4) * 16 + b[2] \div 16)
         \o Base64Char((b[2] % 16) * 4 + b[3] \div 64) \o Base64Char(b[3] % 64)
         \o EncodeToString(SubSeq(b, 4, Len(b)))

\* The package variables before any error is created and any id is issued.
PkgIdle ==
    /\ raised = <<>>
    /\ now = Epoch
    /\ lastTimeIDWasCreated = 0
    /\ random32Int = 0
    /\ issued = <<>>

\* models.User: the two identities of the seeded database.
UserA == [ID |-> 1, APIID |-> "userA", UncategorizedCategoryAPIID |-> "ctgA"]
UserB == [ID |-> 2, APIID |-> "userB", UncategorizedCategoryAPIID |-> "ctgB"]
Users == {UserA, UserB}
UserWithID(id) == CHOOSE u \in Users : u.ID = id

CategoryRow(id, apiID, userID, name) ==
    [kind |-> "category", id |-> id, api_id |-> apiID, user_id |-> userID,
     name |-> name]
FeedRow(id, apiID, userID, categoryID, title) ==
    [kind |-> "feed", id |-> id, api_id |-> apiID, user_id |-> userID,
     category_id |-> categoryID, title |-> title]
TagRow(id, apiID, userID, name) ==
    [kind |-> "tag", id |-> id, api_id |-> apiID, user_id |-> userID,
     name |-> name]
EntryRow(id, apiID, userID, feedID, mark, saved, title) ==
    [kind |-> "entry", id |-> id, api_id |-> apiID, user_id |-> userID,
     feed_id |-> feedID, mark |-> mark, saved |-> saved, title |-> title]

\* Two identities with disjoint data: each has its system category, a feed in
\* it, a tag and an unread entry of the feed; A also has a category of its
\* own making. Entries are numbered in the order they were published.
SeedDB ==
    [categories |-> {CategoryRow(1, "ctgA", 1, "Uncategorized"),
                     CategoryRow(2, "ctgB", 2, "Uncategorized"),
                     CategoryRow(3, "ctgA2", 1, "News")},
     feeds      |-> {FeedRow(1, "feedA", 1, 1, "Feed of A"),
                     FeedRow(2, "feedB", 2, 2, "Feed of B")},
     tags       |-> {TagRow(1, "tagA", 1, "Tag of A"),
                     TagRow(2, "tagB", 2, "Tag of B")},
     entries    |-> {EntryRow(1, "entA", 1, 1, "Unread", FALSE, "Entry of A"),
                     EntryRow(2, "entB", 2, 2, "Unread", FALSE, "Entry of B")},
     entry_tags |-> {}]

\* The ids a caller may pass: its own, the other identity's, and unknown ones.
CategoryIDs == {"ctgA", "ctgA2", "ctgB", "nope"}
FeedIDs == {"feedA", "feedB", "nope"}
TagIDs == {"tagA", "tagB", "nope"}
EntryIDs == {"entA", "entB", "nope"}
Names == {"Renamed", "Uncategorized"}
WriteMarkers == {"Read", "Unread"}

\* Lists of at most two distinct ids.
IDLists(S) ==
    ({<<>>} \cup {<<x>> : x \in S} \cup {<<x, y>> : x, y \in S}) \ {<<x, x>> : x \in S}

\* The rows of S in ascending (or descending) order of id.
RECURSIVE Ordered(_, _)
Ordered(S, desc) ==
    IF S = {} THEN <<>>
    ELSE LET r == CHOOSE x \in S :
                    \A y \in S : IF desc THEN y.id <= x.id ELSE x.id <= y.id
         IN <<r>> \o Ordered(S \ {r}, desc)

\* The first row of S by primary key (S is not empty).
FirstRow(S) == CHOOSE x \in S : \A y \in S : x.id <= y.id

\* db.Model(user).Where("api_id = ?", id).Related(&row)
Owned(rows, apiID, user) ==
    {r \in rows : r.api_id = apiID /\ r.user_id = user.ID}

\* db.First(&row, "api_id = ?", id)
WithAPIID(rows, apiID) == {r \in rows : r.api_id = apiID}

MarkFilter(rows, marker) ==
    IF marker = "Any" THEN rows ELSE {r \in rows : r.mark = marker}

Result(d, rows, err) == [db |-> d, rows |-> rows, stats |-> <<>>, err |-> err]

\* DB.EntryWithAPIID
EntryWithAPIID(d, apiID, user) ==
    IF WithAPIID(d.entries, apiID) = {}
    THEN Result(d, <<>>, NotFound("Entry does not exist"))
    ELSE Result(d, <<FirstRow(WithAPIID(d.entries, apiID))>>, NilDBError)

\* DB.Feeds
DBFeeds(d, user) ==
    Result(d, Ordered({f \in d.feeds : f.user_id = user.ID}, FALSE), NilDBError)

\* DB.Category
DBCategory(d, id, user) ==
    IF Owned(d.categories, id, user) = {}
    THEN Result(d, <<>>, NotFound("Category does not exist"))
    ELSE Result(d, <<FirstRow(Owned(d.categories, id, user))>>, NilDBError)

\* DB.FeedsFromCategory
DBFeedsFromCategory(d, categoryID, user) ==
    LET c == DBCategory(d, categoryID, user)
    IN IF c.err # NilDBError THEN Result(d, <<>>, c.err)
       ELSE Result(d, Ordered({f \in d.feeds : f.category_id = c.rows[1].id}, FALSE),
                   NilDBError)

\* The row with the row its foreign key names, when there is one.
WithParent(row, field, parents, fk) ==
    [k \in DOMAIN row \cup {field} |->
        IF k = field
        THEN IF {p \in parents : p.id = fk} = {} THEN <<>>
             ELSE <<FirstRow({p \in parents : p.id = fk})>>
        ELSE row[k]]

\* DB.Feed
DBFeed(d, id, user) ==
    IF Owned(d.feeds, id, user) = {}
    THEN Result(d, <<>>, NotFound("Feed does not exist"))
    ELSE LET f == FirstRow(Owned(d.feeds, id, user))
         IN Result(d, <<WithParent(f, "Category", d.categories, f.category_id)>>,
                   NilDBError)

\* DB.DeleteFeed
DBDeleteFeed(d, id, user) ==
    IF Owned(d.feeds, id, user) # {}
    THEN Result([d EXCEPT !.feeds = @ \ {FirstRow(Owned(d.feeds, id, user))}],
                <<>>, NilDBError)
    ELSE Result(d, <<>>, NotFound("Feed does not exist"))

\* DB.EditFeed
DBEditFeed(d, feed, user) ==
    IF Owned(d.feeds, feed.APIID, user) # {}
    THEN LET f == FirstRow(Owned(d.feeds, feed.APIID, user))
         IN Result([d EXCEPT !.feeds = (@ \ {f}) \cup {[f EXCEPT !.title = feed.Title]}],
                   <<>>, NilDBError)
    ELSE Result(d, <<>>, NotFound("Feed does not exist"))

\* DB.EditCategory
DBEditCategory(d, ctg, user) ==
    IF Owned(d.categories, ctg.APIID, user) # {}
    THEN LET c == FirstRow(Owned(d.categories, ctg.APIID, user))
         IN Result([d EXCEPT !.categories = (@ \ {c}) \cup {[c EXCEPT !.name = ctg.Name]}],
                   <<>>, NilDBError)
    ELSE Result(d, <<>>, NotFound("Category does not exist"))

\* DB.DeleteCategory
DBDeleteCategory(d, id, user) ==
    IF id = user.UncategorizedCategoryAPIID
    THEN Result(d, <<>>, BadRequest("Cannot delete system categories"))
    ELSE IF Owned(d.categories, id, user) = {}
    THEN Result(d, <<>>, NotFound("Category does not exist"))
    ELSE Result([d EXCEPT !.categories = @ \ {FirstRow(Owned(d.categories, id, user))}],
                <<>>, NilDBError)

\* DB.Categories
DBCategories(d, user) ==
    Result(d, Ordered({c \in d.categories : c.user_id = user.ID}, FALSE), NilDBError)

\* DB.ChangeFeedCategory: the feed leaves its category before the new one is
\* looked up.
DBChangeFeedCategory(d, feedID, ctgID, user) ==
    IF Owned(d.feeds, feedID, user) = {}
    THEN Result(d, <<>>, NotFound("Feed does not exist"))
    ELSE LET feed == FirstRow(Owned(d.feeds, feedID, user))
             left == [feed EXCEPT !.category_id = 0]
             d1 == [d EXCEPT !.feeds = (@ \ {feed}) \cup {left}]
         IN IF Owned(d.categories, ctgID, user) = {}
            THEN Result(d1, <<>>, NotFound("Category does not exist"))
            ELSE LET newCtg == FirstRow(Owned(d.categories, ctgID, user))
                 IN Result([d EXCEPT !.feeds =
                               (@ \ {feed}) \cup {[feed EXCEPT !.category_id = newCtg.id]}],
                           <<>>, NilDBError)

\* DB.Entry
DBEntry(d, id, user) ==
    IF Owned(d.entries, id, user) = {}
    THEN Result(d, <<>>, NotFound("Feed does not exists"))
    ELSE LET e == FirstRow(Owned(d.entries, id, user))
         IN Result(d, <<WithParent(e, "Feed", d.feeds, e.feed_id)>>, NilDBError)

\* DB.Entries
DBEntries(d, orderByNewest, marker, user) ==
    IF marker = "None"
    THEN Result(d, <<>>, BadRequest("Request should include a valid marker"))
    ELSE Result(d, Ordered(MarkFilter({e \in d.entries : e.user_id = user.ID}, marker),
                           orderByNewest), NilDBError)

\* DB.EntriesFromFeed
DBEntriesFromFeed(d, feedID, orderByNewest, marker, user) ==
    IF marker = "None"
    THEN Result(d, <<>>, BadRequest("Request should include a valid marker"))
    ELSE IF Owned(d.feeds, feedID, user) = {}
    THEN Result(d, <<>>, NotFound("Feed not found"))
    ELSE LET feed == FirstRow(Owned(d.feeds, feedID, user))
         IN Result(d, Ordered(MarkFilter({e \in d.entries :
                                  e.user_id = user.ID /\ e.feed_id = feed.id}, marker),
                              orderByNewest), NilDBError)

\* DB.EntriesFromCategory
DBEntriesFromCategory(d, categoryID, orderByNewest, marker, user) ==
    IF marker = "None"
    THEN Result(d, <<>>, BadRequest("Request should include a valid marker"))
    ELSE IF Owned(d.categories, categoryID, user) = {}
    THEN Result(d, <<>>, NotFound("Category not found"))
    ELSE LET category == FirstRow(Owned(d.categories, categoryID, user))
             feedIds == {f.id : f \in {g \in d.feeds : g.category_id = category.id}}
         IN Result(d, Ordered(MarkFilter({e \in d.entries :
                                  e.user_id = user.ID /\ e.feed_id \in feedIds}, marker),
                              orderByNewest), NilDBError)

\* DB.Tag
DBTag(d, id, user) ==
    IF Owned(d.tags, id, user) = {}
    THEN Result(d, <<>>, NotFound("Tag does not exist"))
    ELSE Result(d, <<FirstRow(Owned(d.tags, id, user))>>, NilDBError)

\* DB.Tags
DBTags(d, user) ==
    Result(d, Ordered({t \in d.tags : t.user_id = user.ID}, FALSE), NilDBError)

\* The entries of the list as EntryWithAPIID finds them, up to the first one
\* it does not find.
RECURSIVE LookupEntries(_, _, _)
LookupEntries(d, ids, user) ==
    IF ids = <<>> THEN [found |-> {}, err |-> NilDBError]
    ELSE LET r == EntryWithAPIID(d, Head(ids), user)
         IN IF r.err # NilDBError THEN [found |-> {}, err |-> r.err]
            ELSE LET rest == LookupEntries(d, Tail(ids), user)
                 IN [found |-> {r.rows[1].id} \cup rest.found, err |-> rest.err]

\* DB.TagEntries
DBTagEntries(d, tagID, ids, user) ==
    IF ids = <<>> THEN Result(d, <<>>, NilDBError)
    ELSE IF Owned(d.tags, tagID, user) = {}
    THEN Result(d, <<>>, NotFound("Tag does not exist"))
    ELSE LET tag == FirstRow(Owned(d.tags, tagID, user))
             dbEntries == LookupEntries(d, ids, user)
         IN IF dbEntries.err # NilDBError THEN Result(d, <<>>, dbEntries.err)
            ELSE Result([d EXCEPT !.entry_tags =
                            @ \cup {<<e, tag.id>> : e \in dbEntries.found}],
                        <<>>, NilDBError)

\* DB.EntriesFromTag
DBEntriesFromTag(d, tagID, marker, orderByNewest, user) ==
    IF marker = "None"
    THEN Result(d, <<>>, BadRequest("Request should include a valid marker"))
    ELSE IF Owned(d.tags, tagID, user) = {}
    THEN Result(d, <<>>, NotFound("Tag not found"))
    ELSE LET tag == FirstRow(Owned(d.tags, tagID, user))
         IN Result(d, Ordered(MarkFilter({e \in d.entries :
                                  <<e.id, tag.id>> \in d.entry_tags}, marker),
                              orderByNewest), NilDBError)

\* DB.TagPrimaryKey
TagPrimaryKey(d, apiID) ==
    IF WithAPIID(d.tags, apiID) = {}
    THEN [key |-> 0, err |-> NotFound("Tag does not exist")]
    ELSE [key |-> FirstRow(WithAPIID(d.tags, apiID)).id, err |-> NilDBError]

\* Select("entries.title"): the columns Scan fills, the others zero.
TitleOnly(e) ==
    [kind |-> "entry", id |-> 0, api_id |-> "", user_id |-> 0, feed_id |-> 0,
     mark |-> "None", saved |-> FALSE, title |-> e.title]

\* The rows of entries joined with entry_tags, one per (entry, tag) pair.
RECURSIVE JoinRows(_, _, _)
JoinRows(d, pairs, desc) ==
    IF pairs = {} THEN <<>>
    ELSE LET p == CHOOSE x \in pairs : \A y \in pairs :
                    IF desc THEN (y[1] < x[1] \/ (y[1] = x[1] /\ y[2] <= x[2]))
                    ELSE (x[1] < y[1] \/ (x[1] = y[1] /\ x[2] <= y[2]))
             e == FirstRow({r \in d.entries : r.id = p[1]})
         IN <<TitleOnly(e)>> \o JoinRows(d, pairs \ {p}, desc)

\* DB.EntriesFromMultipleTags
DBEntriesFromMultipleTags(d, tagIDs, orderByNewest, marker, user) ==
    IF \E i \in 1..Len(tagIDs) : TagPrimaryKey(d, tagIDs[i]).err # NilDBError
    THEN Result(d, <<>>, NotFound("Tag does not exist"))
    ELSE LET tagPrimaryKeys == {TagPrimaryKey(d, tagIDs[i]).key : i \in 1..Len(tagIDs)}
             selected == MarkFilter(d.entries, marker)
             pairs == {p \in d.entry_tags :
                          p[2] \in tagPrimaryKeys /\ \E e \in selected : e.id = p[1]}
         IN Result(d, JoinRows(d, pairs, orderByNewest), NilDBError)

\* DB.EditTag
DBEditTag(d, tag, user) ==
    IF Owned(d.tags, tag.APIID, user) # {}
    THEN LET t == FirstRow(Owned(d.tags, tag.APIID, user))
         IN Result([d EXCEPT !.tags = (@ \ {t}) \cup {[t EXCEPT !.name = tag.Name]}],
                   <<>>, NilDBError)
    ELSE Result(d, <<>>, NotFound("Tag does not exist"))

\* DB.DeleteTag
DBDeleteTag(d, id, user) ==
    IF Owned(d.tags, id, user) = {}
    THEN Result(d, <<>>, NotFound("Tag does not exist"))
    ELSE Result([d EXCEPT !.tags = @ \ {FirstRow(Owned(d.tags, id, user))}],
                <<>>, NilDBError)

StatsOf(es) ==
    [Unread |-> Cardinality({e \in es : e.mark = "Unread"}),
     Read   |-> Cardinality({e \in es : e.mark = "Read"}),
     Saved  |-> Cardinality({e \in es : e.saved}),
     Total  |-> Cardinality(es)]

WithStats(d, stats, err) == [db |-> d, rows |-> <<>>, stats |-> stats, err |-> err]

\* DB.CategoryStats
DBCategoryStats(d, id, user) ==
    IF Owned(d.categories, id, user) = {}
    THEN WithStats(d, StatsOf({}), NotFound("Category not found"))
    ELSE LET ctg == FirstRow(Owned(d.categories, id, user))
             feedIds == {f.id : f \in {g \in d.feeds : g.category_id = ctg.id}}
         IN WithStats(d, StatsOf({e \in d.entries :
                                     e.user_id = user.ID /\ e.feed_id \in feedIds}),
                      NilDBError)

\* DB.FeedStats
DBFeedStats(d, id, user) ==
    IF Owned(d.feeds, id, user) = {}
    THEN WithStats(d, StatsOf({}), NotFound("Feed not found"))
    ELSE LET feed == FirstRow(Owned(d.feeds, id, user))
         IN WithStats(d, StatsOf({e \in d.entries :
                                     e.user_id = user.ID /\ e.feed_id = feed.id}),
                      NilDBError)

\* DB.Stats
DBStats(d, user) ==
    WithStats(d, StatsOf({e \in d.entries : e.user_id = user.ID}), NilDBError)

\* Update(models.Entry{Mark: marker}) on the entries es.
SetMark(d, es, marker) ==
    [d EXCEPT !.entries = {IF e \in es THEN [e EXCEPT !.mark = marker] ELSE e : e \in @}]

\* DB.MarkFeed
DBMarkFeed(d, id, marker, user) ==
    LET f == DBFeed(d, id, user)
    IN IF f.err # NilDBError THEN Result(d, <<>>, f.err)
       ELSE Result(SetMark(d, {e \in d.entries :
                                  e.user_id = user.ID /\ e.feed_id = f.rows[1].id}, marker),
                   <<>>, NilDBError)

\* DB.MarkCategory
DBMarkCategory(d, id, marker, user) ==
    LET c == DBCategory(d, id, user)
    IN IF c.err # NilDBError THEN Result(d, <<>>, c.err)
       ELSE LET feedIds == {f.id : f \in {g \in d.feeds : g.category_id = c.rows[1].id}}
            IN Result(SetMark(d, {e \in d.entries :
                                     e.user_id = user.ID /\ e.feed_id \in feedIds}, marker),
                      <<>>, NilDBError)

\* DB.MarkEntry
DBMarkEntry(d, id, marker, user) ==
    LET e == DBEntry(d, id, user)
    IN IF e.err # NilDBError THEN Result(d, <<>>, e.err)
       ELSE Result(SetMark(d, {x \in d.entries : x.id = e.rows[1].id}, marker),
                   <<>>, NilDBError)

----------------------------------------------------------------------------
(* APICtx and UserCtx.                                                     *)

\* APICtx{User: nil}, as seen by the handler of a request of nobody.
Anonymous == [holder |-> 0, user |-> 0]

\* NewUserCtx(db, user), held by a handler serving the request of holder.
NewUserCtx(holder, user) == [holder |-> holder, user |-> user.ID]

\* HasUser answering c.User == nil.
HasUserInverted(c) == c.user = 0

\* APICtx.HasUser
HasUser(c) == c.user # 0

NoCall == [op |-> "none", user |-> 0, args |-> <<>>, rows |-> <<>>,
           stats |-> <<>>, err |-> NilDBError]

CtxIdle ==
    /\ db = SeedDB /\ prev = SeedDB /\ ctx = Anonymous /\ ret = NoCall
    /\ nWrites = 0

----------------------------------------------------------------------------
(* One APIPlugin under any sequence of RegisterEndpoint calls.             *)

LoaderIdle ==
    /\ paths = <<>> /\ idx = 1 /\ pc = "idle" /\ incoming = NoIncoming
    /\ apiPlugins = <<>> /\ kept = <<>> /\ logged = <<>> /\ nPost = 0

InitRegistry ==
    /\ heap = <<>>
    /\ plugin = NewAPIPlugin("API Example")
    /\ calls = <<>>
    /\ before = <<>>
    /\ LoaderIdle
    /\ CtxIdle
    /\ PkgIdle

CallRegisterEndpoint ==
    /\ Len(calls) < MaxCalls
    /\ \E endpnt \in EndpointInputs :
        LET r == RegisterEndpoint(heap, plugin, endpnt)
        IN /\ before' = Endpoints(heap, plugin)
           /\ plugin' = r.p
           /\ heap' = r.heap
           /\ calls' = Append(calls, [endpnt |-> endpnt, err |-> r.err])
    /\ UNCHANGED loadVars
    /\ UNCHANGED <<ctxVars, pkgVars>>

NextRegistry == CallRegisterEndpoint

SpecRegistry == InitRegistry /\ [][NextRegistry]_vars

----------------------------------------------------------------------------
(* The modules the loader is pointed at. What a module is (whether it      *)
(* opens, what it exports, what its Initialize does) is input to the host. *)

Modules ==
    {"api.so", "other.so", "missing.so", "nosym.so", "badsig.so", "initerr.so",
     "ptr.so", "noname.so"}

OpenFails(m) == m = "missing.so"       \* plugin.Open returns an error
LookupFails(m) == m = "nosym.so"       \* the module exports no Initialize
AssertFails(m) == m = "badsig.so"      \* Initialize is not an InitFunc

\* The name Initialize gives to NewAPIPlugin.
InitName(m) ==
    CASE m = "api.so" -> "API Example"
      [] m = "other.so" -> "Other"
      [] m = "initerr.so" -> "Init Error"
      [] m = "noname.so" -> ""
      [] OTHER -> "Pointer"

\* The RegisterEndpoint calls Initialize makes, in order (it ignores their
\* errors, as the example module does).
InitScript(m) ==
    CASE m = "api.so" ->
           <<Endpoint(FALSE, "/hello_world", "GET", "api_test", "helloWorldHandler"),
             Endpoint(TRUE, "/entries", "GET", "api_test", "entriesHandler")>>
      [] m = "other.so" ->
           <<Endpoint(FALSE, "/x", "GET", "other", "helloWorldHandler"),
             Endpoint(FALSE, "/x", "GET", "other", "entriesHandler"),
             Endpoint(FALSE, "/X", "GET", "other", "helloWorldHandler"),
             Endpoint(FALSE, "/x", "get", "other", "helloWorldHandler")>>
      [] m = "initerr.so" ->
           <<Endpoint(FALSE, "/x", "GET", "initerr", "helloWorldHandler")>>
      [] OTHER -> <<>>

\* The error Initialize returns.
InitErr(m) ==
    IF m = "initerr.so" THEN APIPluginError("init failed") ELSE NilError

\* The dynamic type of the Plugin Initialize returns.
InitType(m) == IF m = "ptr.so" THEN "*APIPlugin" ELSE "APIPlugin"

RECURSIVE RunScript(_, _, _)
RunScript(h, p, script) ==
    IF script = <<>> THEN [p |-> p, heap |-> h]
    ELSE LET r == RegisterEndpoint(h, p, Head(script))
         IN RunScript(r.heap, r.p, Tail(script))

\* initFunc(): the module's Initialize, run to its return.
Initialize(h, m) ==
    LET r == RunScript(h, NewAPIPlugin(InitName(m)), InitScript(m))
    IN [plgn |-> r.p, type |-> InitType(m), err |-> InitErr(m), heap |-> r.heap]

\* The endpoints RegisterEndpoint is called with once the load is over.
PostEndpoints ==
    {Endpoint(FALSE, "/new", "GET", "api_test", "helloWorldHandler"),
     Endpoint(FALSE, "/late", "GET", "api_test", "entriesHandler")}

----------------------------------------------------------------------------
(* NewPlugins: loadPlugins over the paths, then the registry in use.       *)

SeqsUpTo(S, n) == UNION {[1..k -> S] : k \in 0..n}

InitLoader ==
    /\ heap = <<>>
    /\ plugin = NewAPIPlugin("")
    /\ calls = <<>>
    /\ before = <<>>
    /\ paths \in SeqsUpTo(Modules, MaxPaths)
    /\ idx = 1
    /\ pc = "open"
    /\ incoming = NoIncoming
    /\ apiPlugins = <<>>
    /\ kept = <<>>
    /\ logged = <<>>
    /\ nPost = 0
    /\ CtxIdle
    /\ PkgIdle

Skip(msg) ==
    /\ logged' = Append(logged, msg)
    /\ idx' = idx + 1
    /\ pc' = "open"

\* plugin.Open(path), with a failure ending the whole load.
OpenAbortOnFailure ==
    /\ pc = "open"
    /\ idx <= Len(paths)
    /\ IF OpenFails(paths[idx])
       THEN /\ logged' = Append(logged, "plugin.Open failed" \o ". Skipping.")
            /\ pc' = "done"
            /\ idx' = idx
       ELSE /\ pc' = "lookup"
            /\ UNCHANGED <<idx, logged>>
    /\ UNCHANGED <<heap, plugin, calls, before, paths, incoming, apiPlugins,
                   kept, nPost>>
    /\ UNCHANGED <<ctxVars, pkgVars>>

\* plgn, err := plugin.Open(path)
Open ==
    /\ pc = "open"
    /\ idx <= Len(paths)
    /\ IF OpenFails(paths[idx])
       THEN Skip("plugin.Open failed" \o ". Skipping.")
       ELSE /\ pc' = "lookup"
            /\ UNCHANGED <<idx, logged>>
    /\ UNCHANGED <<heap, plugin, calls, before, paths, incoming, apiPlugins,
                   kept, nPost>>
    /\ UNCHANGED <<ctxVars, pkgVars>>

\* initFuncSymb, err := plgn.Lookup("Initialize")
Lookup ==
    /\ pc = "lookup"
    /\ IF LookupFails(paths[idx])
       THEN Skip("symbol Initialize not found" \o ". Skipping.")
       ELSE /\ pc' = "assert"
            /\ UNCHANGED <<idx, logged>>
    /\ UNCHANGED <<heap, plugin, calls, before, paths, incoming, apiPlugins,
                   kept, nPost>>
    /\ UNCHANGED <<ctxVars, pkgVars>>

\* initFunc, ok := initFuncSymb.(InitFunc)
AssertInitFunc ==
    /\ pc = "assert"
    /\ IF AssertFails(paths[idx])
       THEN Skip("Invalid Initialization function.")
       ELSE /\ pc' = "invoke"
            /\ UNCHANGED <<idx, logged>>
    /\ UNCHANGED <<heap, plugin, calls, before, paths, incoming, apiPlugins,
                   kept, nPost>>
    /\ UNCHANGED <<ctxVars, pkgVars>>

\* initFunc() with its error left unread.
InvokeIgnoringError ==
    /\ pc = "invoke"
    /\ LET r == Initialize(heap, paths[idx])
       IN /\ heap' = r.heap
          /\ incoming' = [plgn |-> r.plgn, type |-> r.type, err |-> r.err]
          /\ pc' = "classify"
          /\ UNCHANGED <<idx, logged>>
    /\ UNCHANGED <<plugin, calls, before, paths, apiPlugins, kept, nPost>>
    /\ UNCHANGED <<ctxVars, pkgVars>>

\* incomingPlgn, err := initFunc()
Invoke ==
    /\ pc = "invoke"
    /\ LET r == Initialize(heap, paths[idx])
       IN /\ heap' = r.heap
          /\ IF ~r.err.isNil
             THEN /\ Skip(r.err.ErrorMsg \o ". Skpping.")
                  /\ incoming' = NoIncoming
             ELSE /\ incoming' = [plgn |-> r.plgn, type |-> r.type, err |-> r.err]
                  /\ pc' = "classify"
                  /\ UNCHANGED <<idx, logged>>
    /\ UNCHANGED <<plugin, calls, before, paths, apiPlugins, kept, nPost>>
    /\ UNCHANGED <<ctxVars, pkgVars>>

\* switch t := incomingPlgn.(type)
Classify ==
    /\ pc = "classify"
    /\ IF incoming.type = "APIPlugin"
       THEN /\ apiPlugins' = Append(apiPlugins, incoming.plgn)
            /\ kept' = Append(kept, incoming.plgn)
            /\ UNCHANGED logged
       ELSE /\ logged' = Append(logged, "Unrecognized plugin type.")
            /\ UNCHANGED <<apiPlugins, kept>>
    /\ incoming' = NoIncoming
    /\ idx' = idx + 1
    /\ pc' = "open"
    /\ UNCHANGED <<heap, plugin, calls, before, paths, nPost>>
    /\ UNCHANGED <<ctxVars, pkgVars>>

\* The range loop is over: loadPlugins and NewPlugins return.
Return ==
    /\ pc = "open"
    /\ idx > Len(paths)
    /\ pc' = "done"
    /\ UNCHANGED <<heap, plugin, calls, before, paths, idx, incoming,
                   apiPlugins, kept, logged, nPost>>
    /\ UNCHANGED <<ctxVars, pkgVars>>

\* APIPlugins(): the slice the registry holds, not a copy of it.
APIPlugins == apiPlugins

\* s.APIPlugins()[i].RegisterEndpoint(endpnt): the receiver is the element of
\* the registry's own array.
HostRegisterEndpoint ==
    /\ pc = "done"
    /\ nPost < MaxPost
    /\ \E i \in 1..Len(APIPlugins), endpnt \in PostEndpoints :
        LET r == RegisterEndpoint(heap, APIPlugins[i], endpnt)
        IN /\ apiPlugins' = [apiPlugins EXCEPT ![i] = r.p]
           /\ heap' = r.heap
           /\ calls' = Append(calls, [endpnt |-> endpnt, err |-> r.err])
    /\ nPost' = nPost + 1
    /\ UNCHANGED <<plugin, before, paths, idx, pc, incoming, kept, logged>>
    /\ UNCHANGED <<ctxVars, pkgVars>>

\* plugin.RegisterEndpoint(endpnt) on the value a loaded module kept.
ModuleRegisterEndpoint ==
    /\ pc = "done"
    /\ nPost < MaxPost
    /\ \E i \in 1..Len(kept), endpnt \in PostEndpoints :
        LET r == RegisterEndpoint(heap, kept[i], endpnt)
        IN /\ kept' = [kept EXCEPT ![i] = r.p]
           /\ heap' = r.heap
           /\ calls' = Append(calls, [endpnt |-> endpnt, err |-> r.err])
    /\ nPost' = nPost + 1
    /\ UNCHANGED <<plugin, before, paths, idx, pc, incoming, apiPlugins, logged>>
    /\ UNCHANGED <<ctxVars, pkgVars>>

Next ==
    \/ Open
    \/ Lookup
    \/ AssertInitFunc
    \/ Invoke
    \/ Classify
    \/ Return
    \/ HostRegisterEndpoint
    \/ ModuleRegisterEndpoint

Spec == InitLoader /\ [][Next]_vars

----------------------------------------------------------------------------
(* Request handling: the host builds the context, the handler calls        *)
(* through it. Every UserCtx method forwards to the DB method of the same  *)
(* name with c.user.                                                       *)

InitCtx ==
    /\ heap = <<>>
    /\ plugin = NewAPIPlugin("")
    /\ calls = <<>>
    /\ before = <<>>
    /\ LoaderIdle
    /\ CtxIdle
    /\ PkgIdle

\* The host serves a request of nobody: APICtx{User: nil}.
HostAnonymous ==
    /\ ret = NoCall
    /\ ctx' = Anonymous
    /\ ret' = NoCall
    /\ prev' = db
    /\ UNCHANGED <<db, nWrites>>
    /\ UNCHANGED regVars
    /\ UNCHANGED <<loadVars, pkgVars>>

\* The host authenticated the request of u: APICtx{User: &NewUserCtx(db, &u)}.
HostAuthenticate ==
    /\ ret = NoCall
    /\ \E u \in Users : ctx' = NewUserCtx(u.ID, u)
    /\ ret' = NoCall
    /\ prev' = db
    /\ UNCHANGED <<db, nWrites>>
    /\ UNCHANGED regVars
    /\ UNCHANGED <<loadVars, pkgVars>>

\* The handler of an authenticated request calls the exported
\* plugins.NewUserCtx itself, with a database handle (database.NewDB is
\* exported too) and a user of its choosing.
ExtNewUserCtx ==
    /\ ret = NoCall
    /\ HasUser(ctx)
    /\ \E u \in Users : ctx' = NewUserCtx(ctx.holder, u)
    /\ ret' = NoCall
    /\ prev' = db
    /\ UNCHANGED <<db, nWrites>>
    /\ UNCHANGED regVars
    /\ UNCHANGED <<loadVars, pkgVars>>

\* c.user taken to be the identity of the request being served.
BoundHolder == UserWithID(ctx.holder)

\* c.user
BoundUser == UserWithID(ctx.user)

\* The handler has turned the result of its last call into its response.
Respond ==
    /\ ret # NoCall
    /\ ret' = NoCall
    /\ prev' = db
    /\ UNCHANGED <<db, ctx, nWrites>>
    /\ UNCHANGED regVars
    /\ UNCHANGED <<loadVars, pkgVars>>

\* A call of a UserCtx method through ctx, with the result r of the DB method.
Do(op, args, r) ==
    /\ ret = NoCall
    /\ HasUser(ctx)
    /\ r.db # db => nWrites < MaxWrites
    /\ db' = r.db
    /\ prev' = db
    /\ nWrites' = IF r.db # db THEN nWrites + 1 ELSE nWrites
    /\ ret' = [op |-> op, user |-> ctx.user, args |-> args, rows |-> r.rows,
               stats |-> r.stats, err |-> r.err]
    /\ UNCHANGED ctx
    /\ UNCHANGED regVars
    /\ UNCHANGED <<loadVars, pkgVars>>

Entries ==
    \E o \in BOOLEAN, m \in Markers :
        Do("Entries", [orderByNewest |-> o, marker |-> m],
           DBEntries(db, o, m, BoundUser))

EntriesFromCategory ==
    \E id \in CategoryIDs, o \in BOOLEAN, m \in Markers :
        Do("EntriesFromCategory", [categoryID |-> id, orderByNewest |-> o, marker |-> m],
           DBEntriesFromCategory(db, id, o, m, BoundUser))

EntriesFromFeed ==
    \E id \in FeedIDs, o \in BOOLEAN, m \in Markers :
        Do("EntriesFromFeed", [feedID |-> id, orderByNewest |-> o, marker |-> m],
           DBEntriesFromFeed(db, id, o, m, BoundUser))

EntriesFromTag ==
    \E id \in TagIDs, o \in BOOLEAN, m \in Markers :
        Do("EntriesFromTag", [tagID |-> id, orderByNewest |-> o, marker |-> m],
           DBEntriesFromTag(db, id, m, o, BoundUser))

EntriesFromMultipleTags ==
    \E ids \in IDLists(TagIDs), o \in BOOLEAN, m \in Markers :
        Do("EntriesFromMultipleTags", [tagIDs |-> ids, orderByNewest |-> o, marker |-> m],
           DBEntriesFromMultipleTags(db, ids, o, m, BoundUser))

Entry ==
    \E id \in EntryIDs : Do("Entry", [id |-> id], DBEntry(db, id, BoundUser))

Feeds == Do("Feeds", <<>>, DBFeeds(db, BoundUser))

FeedsFromCategory ==
    \E id \in CategoryIDs :
        Do("FeedsFromCategory", [categoryID |-> id], DBFeedsFromCategory(db, id, BoundUser))

Feed ==
    \E id \in FeedIDs : Do("Feed", [id |-> id], DBFeed(db, id, BoundUser))

DeleteFeed ==
    \E id \in FeedIDs : Do("DeleteFeed", [id |-> id], DBDeleteFeed(db, id, BoundUser))

EditFeed ==
    \E id \in FeedIDs, t \in Names :
        Do("EditFeed", [feed |-> [APIID |-> id, Title |-> t]],
           DBEditFeed(db, [APIID |-> id, Title |-> t], BoundUser))

Categories == Do("Categories", <<>>, DBCategories(db, BoundUser))

Category ==
    \E id \in CategoryIDs : Do("Category", [id |-> id], DBCategory(db, id, BoundUser))

EditCategory ==
    \E id \in CategoryIDs, n \in Names :
        Do("EditCategory", [ctg |-> [APIID |-> id, Name |-> n]],
           DBEditCategory(db, [APIID |-> id, Name |-> n], BoundUser))

\* DeleteCategory(id, user): the parameter user is not used.
DeleteCategory ==
    \E id \in CategoryIDs, user \in Users :
        Do("DeleteCategory", [id |-> id, user |-> user],
           DBDeleteCategory(db, id, BoundUser))

ChangeFeedCategory ==
    \E feedID \in FeedIDs, ctgID \in CategoryIDs :
        Do("ChangeFeedCategory", [feedID |-> feedID, ctgID |-> ctgID],
           DBChangeFeedCategory(db, feedID, ctgID, BoundUser))

Tags == Do("Tags", <<>>, DBTags(db, BoundUser))

Tag ==
    \E id \in TagIDs : Do("Tag", [id |-> id], DBTag(db, id, BoundUser))

EditTag ==
    \E id \in TagIDs, n \in Names :
        Do("EditTag", [tag |-> [APIID |-> id, Name |-> n]],
           DBEditTag(db, [APIID |-> id, Name |-> n], BoundUser))

DeleteTag ==
    \E id \in TagIDs : Do("DeleteTag", [id |-> id], DBDeleteTag(db, id, BoundUser))

TagEntries ==
    \E tagID \in TagIDs, ids \in IDLists(EntryIDs) :
        Do("TagEntries", [tagID |-> tagID, entries |-> ids],
           DBTagEntries(db, tagID, ids, BoundUser))

CategoryStats ==
    \E id \in CategoryIDs :
        Do("CategoryStats", [id |-> id], DBCategoryStats(db, id, BoundUser))

FeedStats ==
    \E id \in FeedIDs : Do("FeedStats", [id |-> id], DBFeedStats(db, id, BoundUser))

Stats == Do("Stats", <<>>, DBStats(db, BoundUser))

MarkFeed ==
    \E id \in FeedIDs, m \in WriteMarkers :
        Do("MarkFeed", [id |-> id, marker |-> m], DBMarkFeed(db, id, m, BoundUser))

MarkCategory ==
    \E id \in CategoryIDs, m \in WriteMarkers :
        Do("MarkCategory", [id |-> id, marker |-> m], DBMarkCategory(db, id, m, BoundUser))

MarkEntry ==
    \E id \in EntryIDs, m \in WriteMarkers :
        Do("MarkEntry", [id |-> id, marker |-> m], DBMarkEntry(db, id, m, BoundUser))

NextCtx ==
    \/ HostAnonymous
    \/ HostAuthenticate
    \/ ExtNewUserCtx
    \/ Respond
    \/ Entries
    \/ EntriesFromCategory
    \/ EntriesFromFeed
    \/ EntriesFromTag
    \/ EntriesFromMultipleTags
    \/ Entry
    \/ Feeds
    \/ FeedsFromCategory
    \/ Feed
    \/ DeleteFeed
    \/ EditFeed
    \/ Categories
    \/ Category
    \/ EditCategory
    \/ DeleteCategory
    \/ ChangeFeedCategory
    \/ Tags
    \/ Tag
    \/ EditTag
    \/ DeleteTag
    \/ TagEntries
    \/ CategoryStats
    \/ FeedStats
    \/ Stats
    \/ MarkFeed
    \/ MarkCategory
    \/ MarkEntry

SpecCtx == InitCtx /\ [][NextCtx]_vars

----------------------------------------------------------------------------
(* package database: the DBError values and their methods.                 *)

InitErrors ==
    /\ heap = <<>>
    /\ plugin = NewAPIPlugin("")
    /\ calls = <<>>
    /\ before = <<>>
    /\ LoaderIdle
    /\ CtxIdle
    /\ PkgIdle

\* An error of some kind is created with some message, and its three methods
\* are called.
RaiseError ==
    /\ Len(raised) < MaxErrs
    /\ \E kind \in ErrorKinds, msg \in Messages :
         LET e == NewDBError(kind, msg)
         IN raised' = Append(raised, [err |-> e, Code |-> Code(e),
                                      String |-> String(e), Error |-> Error(e)])
    /\ UNCHANGED <<now, lastTimeIDWasCreated, random32Int, issued>>
    /\ UNCHANGED <<regVars, loadVars, ctxVars>>

NextErrors == RaiseError

SpecErrors == InitErrors /\ [][NextErrors]_vars

----------------------------------------------------------------------------
(* package database: createAPIID under a clock that advances.              *)

InitIDs == InitErrors

\* A second passes.
Tick ==
    /\ now < Epoch + MaxTicks
    /\ now' = now + 1
    /\ UNCHANGED <<raised, lastTimeIDWasCreated, random32Int, issued>>
    /\ UNCHANGED <<regVars, loadVars, ctxVars>>

\* createAPIID(), r being mathRand.Uint32() % 16. (random32Int stays far
\* below 2^32 within MaxIDs calls, so its increment does not wrap.)
createAPIID ==
    /\ Len(issued) < MaxIDs
    /\ \E r \in 0..15 :
         LET currentTime == now
             duplicateTime == (lastTimeIDWasCreated = currentTime)
             rnd == IF ~duplicateTime THEN r ELSE random32Int + 1
         IN /\ lastTimeIDWasCreated' = currentTime
            /\ random32Int' = rnd
            /\ issued' = Append(issued, EncodeToString(FormatInt(currentTime + rnd)))
    /\ UNCHANGED <<raised, now>>
    /\ UNCHANGED <<regVars, loadVars, ctxVars>>

NextIDs == Tick \/ createAPIID

SpecIDs == InitIDs /\ [][NextIDs]_vars

----------------------------------------------------------------------------
(* Claims about RegisterEndpoint, checked under SpecRegistry.              *)

ValidEndpoint(e) == e.Handler # NilHandler /\ e.Method # "" /\ e.Path # ""

SameRoute(e1, e2) == e1.Method = e2.Method /\ e1.Path = e2.Path

CallsValidAndDistinct ==
    /\ \A i \in 1..Len(calls) : ValidEndpoint(calls[i].endpnt)
    /\ \A i, j \in 1..Len(calls) :
         i # j => ~SameRoute(calls[i].endpnt, calls[j].endpnt)

LastCall == calls[Len(calls)]

LastConflicts ==
    /\ calls # <<>>
    /\ \E i \in 1..Len(before) : SameRoute(before[i], LastCall.endpnt)

\* C1: when every call of the sequence has a handler, a method and a path and
\* the (Method, Path) pairs are pairwise distinct (also when they differ only
\* in the method, only in the path or only in letter case), every call returns
\* nil and Endpoints() is the sequence of the endpoints in call order, as long
\* as the number of calls.
C1_DistinctCallsAllAppended ==
    CallsValidAndDistinct =>
        /\ \A i \in 1..Len(calls) : calls[i].err = NilError
        /\ Len(Endpoints(heap, plugin)) = Len(calls)
        /\ \A i \in 1..Len(calls) : Endpoints(heap, plugin)[i] = calls[i].endpnt

C1_Witness ==
    /\ Len(calls) = 3
    /\ CallsValidAndDistinct
    /\ calls[1].endpnt.Method = calls[2].endpnt.Method
    /\ calls[1].endpnt.Path = "/x" /\ calls[2].endpnt.Path = "/X"
    /\ calls[2].endpnt.Path = calls[3].endpnt.Path
    /\ calls[2].endpnt.Method = "GET" /\ calls[3].endpnt.Method = "get"
    /\ Len(Endpoints(heap, plugin)) = 3

\* C2 as stated: a call whose (Method, Path) equals that of a registered
\* endpoint returns an error that contains "already exists", the path and the
\* method, and leaves the endpoint sequence as it was.
C2_Original ==
    LastConflicts =>
        /\ ~LastCall.err.isNil
        /\ Contains(LastCall.err.ErrorMsg, "already exists")
        /\ Contains(LastCall.err.ErrorMsg, LastCall.endpnt.Path)
        /\ Contains(LastCall.err.ErrorMsg, LastCall.endpnt.Method)
        /\ Endpoints(heap, plugin) = before

\* C2, amended: a call that carries a handler and whose (Method, Path) equals
\* that of a registered endpoint returns an error that contains "already
\* exists", the path and the method; with or without a handler, the endpoint
\* sequence (length, order, the earlier handler) is as it was before the call.
C2_ConflictRejected ==
    LastConflicts =>
        /\ ~LastCall.err.isNil
        /\ Endpoints(heap, plugin) = before
        /\ LastCall.endpnt.Handler # NilHandler =>
             /\ Contains(LastCall.err.ErrorMsg, "already exists")
             /\ Contains(LastCall.err.ErrorMsg, LastCall.endpnt.Path)
             /\ Contains(LastCall.err.ErrorMsg, LastCall.endpnt.Method)

C2_Witness ==
    /\ LastConflicts
    /\ Len(before) = 2
    /\ \E i \in 1..Len(before) :
         /\ SameRoute(before[i], LastCall.endpnt)
         /\ LastCall.endpnt.Handler # NilHandler
         /\ before[i].Handler # LastCall.endpnt.Handler
         /\ Endpoints(heap, plugin)[i].Handler = before[i].Handler

\* C3: the checks run in the order handler, method, path, conflicting route;
\* the error is that of the first check that fails, and a call that returns an
\* error leaves the endpoint sequence unmodified.
C3_ValidationOrder ==
    calls # <<>> =>
        LET e == LastCall.endpnt
            msg == LastCall.err.ErrorMsg
        IN /\ e.Handler = NilHandler => msg = "A handler is required."
           /\ (e.Handler # NilHandler /\ e.Method = "") =>
                msg = "A method is required."
           /\ (e.Handler # NilHandler /\ e.Method # "" /\ e.Path = "") =>
                msg = "A path is required."
           /\ (ValidEndpoint(e) /\ LastConflicts) =>
                Contains(msg, "already exists")
           /\ (ValidEndpoint(e) /\ ~LastConflicts) => LastCall.err.isNil
           /\ (e.Handler = NilHandler \/ e.Method = "" \/ e.Path = ""
                 \/ LastConflicts) => ~LastCall.err.isNil
           /\ ~LastCall.err.isNil => Endpoints(heap, plugin) = before

C3_Witness ==
    /\ calls # <<>>
    /\ before # <<>>
    /\ LastCall.endpnt.Handler = NilHandler
    /\ LastCall.endpnt.Method = ""
    /\ LastCall.err.ErrorMsg = "A handler is required."
    /\ Endpoints(heap, plugin) = before

\* C4: after any sequence of RegisterEndpoint calls, valid or not, no two
\* endpoints of the plugin have the same (Method, Path).
C4_RouteUnique ==
    \A i, j \in 1..Len(Endpoints(heap, plugin)) :
        i # j => ~SameRoute(Endpoints(heap, plugin)[i], Endpoints(heap, plugin)[j])

C4_Witness ==
    /\ Len(calls) = 3
    /\ Len(Endpoints(heap, plugin)) = 2
    /\ LastConflicts
    /\ ValidEndpoint(LastCall.endpnt)

----------------------------------------------------------------------------
(* Claims about the loader and the registry, checked under Spec.           *)

\* A module that passes every stage of the loader.
Succeeds(m) ==
    /\ ~OpenFails(m) /\ ~LookupFails(m) /\ ~AssertFails(m)
    /\ InitErr(m).isNil
    /\ InitType(m) = "APIPlugin"

Failures == Cardinality({i \in 1..Len(paths) : ~Succeeds(paths[i])})

SucceededPaths == SelectSeq(paths, Succeeds)

\* What a reader of the registry sees: the extensions' names and endpoints.
RegistryView ==
    [i \in 1..Len(APIPlugins) |->
        [name |-> Name(APIPlugins[i]), endpoints |-> Endpoints(heap, APIPlugins[i])]]

\* C5: of N paths of which K fail at some stage, the load reaches the end of
\* the list (every stage it can be at has a step to take, none ends the loop
\* early and nothing is reported to the caller), and the registry then holds
\* exactly N-K extensions, those of the paths that succeeded, in their order.
C5_PartialFailureTolerant ==
    /\ pc \in {"open", "lookup", "assert", "invoke", "classify", "done"}
    /\ pc \in {"lookup", "assert", "invoke", "classify"} => idx <= Len(paths)
    /\ (pc = "done" /\ nPost = 0) =>
         /\ idx = Len(paths) + 1
         /\ Len(APIPlugins) = Len(paths) - Failures
         /\ Len(APIPlugins) = Len(SucceededPaths)
         /\ \A i \in 1..Len(APIPlugins) :
              Name(APIPlugins[i]) = InitName(SucceededPaths[i])

C5_Witness ==
    /\ pc = "done"
    /\ nPost = 0
    /\ Len(paths) = 3
    /\ Succeeds(paths[1]) /\ ~Succeeds(paths[2]) /\ Succeeds(paths[3])
    /\ paths[1] # paths[3]
    /\ Len(APIPlugins) = 2

\* C6: once NewPlugins has returned, no step changes what APIPlugins() and
\* the Endpoints() of its extensions return.
C6_FrozenAfterLoad == [][pc = "done" => RegistryView' = RegistryView]_vars

----------------------------------------------------------------------------
(* Claims about UserCtx, checked under SpecCtx.                            *)

ListAndFetchOps ==
    {"Entries", "EntriesFromFeed", "EntriesFromCategory", "EntriesFromTag",
     "EntriesFromMultipleTags", "Entry", "Feeds", "FeedsFromCategory", "Feed",
     "Categories", "Category", "Tags", "Tag"}

\* The rows a call returned: those of the list, and the Category of a
\* returned feed and the Feed of a returned entry.
Returned ==
    UNION {{ret.rows[i]}
           \cup (IF "Category" \in DOMAIN ret.rows[i]
                 THEN {ret.rows[i].Category[j] : j \in DOMAIN ret.rows[i].Category}
                 ELSE {})
           \cup (IF "Feed" \in DOMAIN ret.rows[i]
                 THEN {ret.rows[i].Feed[j] : j \in DOMAIN ret.rows[i].Feed}
                 ELSE {}) : i \in 1..Len(ret.rows)}

\* The returned value v is (a copy or a projection of) a row owned by uid.
\* The seeded entries have distinct titles, and no operation changes them.
OwnedBy(v, uid) ==
    \/ v.user_id = uid
    \/ /\ v.kind = "entry"
       /\ v.user_id = 0
       /\ \E e \in db.entries : e.user_id = uid /\ e.title = v.title

\* C7: no list or fetch operation of a UserCtx returns an entity owned by
\* another identity than the one it is bound to, whatever its arguments and
\* whatever UserCtx operations came before.
C7_NoForeignEntityReturned ==
    ret.op \in ListAndFetchOps =>
        \A v \in Returned : \A u \in Users : u.ID # ret.user => ~OwnedBy(v, u.ID)

EntityOps ==
    {"Entry", "Feed", "Category", "Tag", "EditFeed", "EditCategory", "EditTag",
     "DeleteFeed", "DeleteCategory", "DeleteTag", "ChangeFeedCategory",
     "TagEntries", "CategoryStats", "FeedStats", "MarkFeed", "MarkCategory",
     "MarkEntry"}

\* The (table, id) pairs the arguments of the last call name. A TagEntries
\* call with no entries names nothing: it returns before it reads its tag.
NamedByLastCall ==
    LET a == ret.args
        id(table) == IF "id" \in DOMAIN a THEN {<<table, a.id>>} ELSE {}
    IN CASE ret.op \in {"Entry", "MarkEntry"} -> id("entries")
         [] ret.op \in {"Feed", "DeleteFeed", "FeedStats", "MarkFeed"} -> id("feeds")
         [] ret.op \in {"Category", "DeleteCategory", "CategoryStats", "MarkCategory"} ->
              id("categories")
         [] ret.op \in {"Tag", "DeleteTag"} -> id("tags")
         [] ret.op = "EditFeed" -> {<<"feeds", a.feed.APIID>>}
         [] ret.op = "EditCategory" -> {<<"categories", a.ctg.APIID>>}
         [] ret.op = "EditTag" -> {<<"tags", a.tag.APIID>>}
         [] ret.op = "ChangeFeedCategory" ->
              {<<"feeds", a.feedID>>, <<"categories", a.ctgID>>}
         [] ret.op = "TagEntries" ->
              IF a.entries = <<>> THEN {}
              ELSE {<<"tags", a.tagID>>}
                   \cup {<<"entries", a.entries[i]>> : i \in 1..Len(a.entries)}
         [] OTHER -> {}

\* The last call was given the id of an entity of another identity.
ForeignIdGiven ==
    \E n \in NamedByLastCall :
        \E r \in prev[n[1]] : r.api_id = n[2] /\ r.user_id # ret.user

\* What identity uid owns in d: its rows, their marks, and the tag
\* associations of its entries and of its tags.
OwnedState(d, uid) ==
    [categories |-> {r \in d.categories : r.user_id = uid},
     feeds      |-> {r \in d.feeds : r.user_id = uid},
     tags       |-> {r \in d.tags : r.user_id = uid},
     entries    |-> {r \in d.entries : r.user_id = uid},
     entry_tags |-> {p \in d.entry_tags :
                        \/ \E e \in d.entries : e.id = p[1] /\ e.user_id = uid
                        \/ \E t \in d.tags : t.id = p[2] /\ t.user_id = uid}]

\* C8: a fetch, edit, delete, tag, statistics or mark operation given the id
\* of an entity of another identity returns NotFound and changes nothing that
\* identity owns. (Stated for the calls that name an entity; a TagEntries
\* call with an empty list is left out.)
C8_ForeignIdNotFound ==
    (ret.op \in EntityOps /\ ForeignIdGiven) =>
        /\ ret.err.kind = "NotFound"
        /\ \A u \in Users :
             u.ID # ret.user => OwnedState(db, u.ID) = OwnedState(prev, u.ID)

\* C9: no call of a UserCtx operation carries an identity among its
\* arguments.
C9_NoIdentityParameter == "user" \notin DOMAIN ret.args

\* C10: the context a handler calls through is bound to the identity the
\* host authenticated for its request.
C10_ContextFromHostOnly == HasUser(ctx) => ctx.user = ctx.holder

\* The storage operation named op, called on d with the arguments a of the
\* UserCtx call and the user u.
StorageCall(op, d, a, u) ==
    CASE op = "Entries" -> DBEntries(d, a.orderByNewest, a.marker, u)
      [] op = "EntriesFromCategory" ->
           DBEntriesFromCategory(d, a.categoryID, a.orderByNewest, a.marker, u)
      [] op = "EntriesFromFeed" ->
           DBEntriesFromFeed(d, a.feedID, a.orderByNewest, a.marker, u)
      [] op = "EntriesFromTag" ->
           DBEntriesFromTag(d, a.tagID, a.marker, a.orderByNewest, u)
      [] op = "EntriesFromMultipleTags" ->
           DBEntriesFromMultipleTags(d, a.tagIDs, a.orderByNewest, a.marker, u)
      [] op = "Entry" -> DBEntry(d, a.id, u)
      [] op = "Feeds" -> DBFeeds(d, u)
      [] op = "FeedsFromCategory" -> DBFeedsFromCategory(d, a.categoryID, u)
      [] op = "Feed" -> DBFeed(d, a.id, u)
      [] op = "DeleteFeed" -> DBDeleteFeed(d, a.id, u)
      [] op = "EditFeed" -> DBEditFeed(d, a.feed, u)
      [] op = "Categories" -> DBCategories(d, u)
      [] op = "Category" -> DBCategory(d, a.id, u)
      [] op = "EditCategory" -> DBEditCategory(d, a.ctg, u)
      [] op = "DeleteCategory" -> DBDeleteCategory(d, a.id, u)
      [] op = "ChangeFeedCategory" -> DBChangeFeedCategory(d, a.feedID, a.ctgID, u)
      [] op = "Tags" -> DBTags(d, u)
      [] op = "Tag" -> DBTag(d, a.id, u)
      [] op = "EditTag" -> DBEditTag(d, a.tag, u)
      [] op = "DeleteTag" -> DBDeleteTag(d, a.id, u)
      [] op = "TagEntries" -> DBTagEntries(d, a.tagID, a.entries, u)
      [] op = "CategoryStats" -> DBCategoryStats(d, a.id, u)
      [] op = "FeedStats" -> DBFeedStats(d, a.id, u)
      [] op = "Stats" -> DBStats(d, u)
      [] op = "MarkFeed" -> DBMarkFeed(d, a.id, a.marker, u)
      [] op = "MarkCategory" -> DBMarkCategory(d, a.id, a.marker, u)
      [] OTHER -> DBMarkEntry(d, a.id, a.marker, u)

\* The identity bound when the context of the last call was constructed.
BoundAtConstruction == UserWithID(ret.user)

\* C11: the outcome of a UserCtx call (value, error and stored state) is that
\* of one call of the storage operation of the same name on the state before
\* it, with the caller's arguments and the identity bound at construction;
\* an identity among the arguments plays no part.
C11_ForwardsWithBoundIdentity ==
    ret # NoCall =>
        LET r == StorageCall(ret.op, prev, ret.args, BoundAtConstruction)
        IN /\ ret.rows = r.rows
           /\ ret.stats = r.stats
           /\ ret.err = r.err
           /\ db = r.db

\* A context bound to A, held by a handler that serves B, is handed B as the
\* user argument of DeleteCategory and deletes a category of A.
C11_Witness ==
    /\ ret.op = "DeleteCategory"
    /\ ret.user = UserA.ID
    /\ ctx.holder = UserB.ID
    /\ ret.args.user = UserB
    /\ ret.err = NilDBError
    /\ db # prev


\* C12: HasUser() is false on the context of a request served without an
\* identity (User is nil) and true on a context built with a user context;
\* the answer depends on the context alone, and UserCtx calls are made only
\* through a context on which it is true.
C12_HasUserTellsIdentity ==
    /\ ctx = Anonymous => ~HasUser(ctx)
    /\ ctx.holder # 0 => HasUser(ctx)
    /\ \A u \in Users : HasUser(NewUserCtx(u.ID, u)) /\ HasUser(NewUserCtx(ctx.holder, u))
    /\ ret # NoCall => HasUser(ctx)

\* entriesHandler on an authenticated request: HasUser() was true and
\* Entries(true, Any) was called through c.User.
C12_Witness ==
    /\ HasUser(ctx)
    /\ ctx.holder # 0
    /\ ret.op = "Entries"
    /\ ret.args = [orderByNewest |-> TRUE, marker |-> "Any"]
    /\ ret.err = NilDBError


----------------------------------------------------------------------------
(* Further claims about the loader and the registry, checked under Spec.   *)

\* C13: every extension in the registry has a non-empty Name.
C13_NamesNonEmpty ==
    \A i \in 1..Len(APIPlugins) : Name(APIPlugins[i]) # ""

\* C15: a stage is entered only from the stage before it, for the same list
\* entry and after that stage succeeded; the loop never goes back to an
\* earlier entry, and the step that invokes Initialize leaves the invocation
\* stage, so Initialize runs at most once per entry and only after open,
\* lookup and signature check succeeded; the registry grows only at
\* classification, by a plugin that was returned with a nil error.
C15_StagesInOrder ==
    [][/\ idx' >= idx
       /\ (pc' = "lookup" /\ pc # "lookup") =>
            pc = "open" /\ idx' = idx /\ ~OpenFails(paths[idx])
       /\ (pc' = "assert" /\ pc # "assert") =>
            pc = "lookup" /\ idx' = idx /\ ~LookupFails(paths[idx])
       /\ (pc' = "invoke" /\ pc # "invoke") =>
            /\ pc = "assert" /\ idx' = idx
            /\ ~OpenFails(paths[idx]) /\ ~LookupFails(paths[idx])
            /\ ~AssertFails(paths[idx])
       /\ pc = "invoke" =>
            \/ pc' = "classify" /\ idx' = idx /\ InitErr(paths[idx]).isNil
            \/ pc' = "open" /\ idx' = idx + 1 /\ ~InitErr(paths[idx]).isNil
            \/ UNCHANGED vars
       /\ (pc' = "classify" /\ pc # "classify") => pc = "invoke" /\ idx' = idx
       /\ heap' # heap /\ pc # "done" => pc = "invoke"
       /\ Len(apiPlugins') # Len(apiPlugins) =>
            /\ pc = "classify"
            /\ incoming.err.isNil
            /\ InitErr(paths[idx]).isNil
            /\ apiPlugins' = Append(apiPlugins, incoming.plgn)
      ]_vars

\* A load in which one module's Initialize returned a plugin with endpoints
\* together with an error, and a later module was loaded.
C15_Witness ==
    /\ pc = "done"
    /\ Len(paths) = 2
    /\ paths[1] = "initerr.so"
    /\ paths[2] = "api.so"
    /\ Len(apiPlugins) = 1
    /\ Name(apiPlugins[1]) = "API Example"
    /\ \E i \in 1..Len(logged) : Contains(logged[i], "init failed")

\* C19: no (Method, Path) pair is declared by two different extensions of the
\* registry.
C19_RouteUniqueAcrossRegistry ==
    \A i, j \in 1..Len(APIPlugins) :
        i # j =>
            LET es1 == Endpoints(heap, APIPlugins[i])
                es2 == Endpoints(heap, APIPlugins[j])
            IN \A k \in 1..Len(es1), l \in 1..Len(es2) : ~SameRoute(es1[k], es2[l])


----------------------------------------------------------------------------
(* Claims about package database, checked under SpecErrors and SpecIDs.    *)

\* C14: whatever its message, an error reports through Code() the code of
\* its kind (Conflict 409, NotFound 404, BadRequest 400, Unauthorized 401,
\* InternalError 500), and through Error() the message it was created with.
C14_FixedCodes ==
    \A i \in 1..Len(raised) :
        LET o == raised[i]
        IN /\ o.err.kind = "Conflict" => o.Code = 409
           /\ o.err.kind = "NotFound" => o.Code = 404
           /\ o.err.kind = "BadRequest" => o.Code = 400
           /\ o.err.kind = "Unauthorized" => o.Code = 401
           /\ o.err.kind = "InternalError" => o.Code = 500
           /\ o.Error = o.err.msg

\* A NotFound and a BadRequest created with the same non-empty message.
C14_Witness ==
    /\ Len(raised) = 2
    /\ raised[1].err.kind = "NotFound"
    /\ raised[2].err.kind = "BadRequest"
    /\ raised[1].err.msg = raised[2].err.msg
    /\ raised[1].err.msg # ""

\* C17: the identifiers createAPIID has returned are pairwise different.
C17_APIIDsDistinct ==
    \A i, j \in 1..Len(issued) : i # j => issued[i] # issued[j]

----------------------------------------------------------------------------
(* Further claims about UserCtx, checked under SpecCtx.                    *)

\* C16: a ChangeFeedCategory call that returns an error leaves the stored
\* state as it was, the feed's category included.
C16_FailedMoveChangesNothing ==
    (ret.op = "ChangeFeedCategory" /\ ret.err # NilDBError) => db = prev


\* C18: every user owns the category whose id is its
\* UncategorizedCategoryAPIID, and that category is named Uncategorized.
C18_SystemCategoryKept ==
    \A u \in Users :
        \E c \in db.categories :
            /\ c.api_id = u.UncategorizedCategoryAPIID
            /\ c.user_id = u.ID
            /\ c.name = "Uncategorized"


\* C20: an entry-listing call with the marker None returns BadRequest and no
\* entries, whatever feed, category or tag ids it names.
C20_NoneMarkerIsBadRequest ==
    (/\ ret.op \in {"Entries", "EntriesFromFeed", "EntriesFromCategory",
                    "EntriesFromTag", "EntriesFromMultipleTags"}
     /\ ret.args.marker = "None") =>
        ret.err.kind = "BadRequest" /\ ret.rows = <<>>


\* C21: TagEntries is all-or-nothing. With an empty list it returns nil and
\* changes nothing; if the bound user has no tag with the given id, or no
\* entry with one of the listed ids, it returns NotFound and no association
\* is added; otherwise it returns nil and every listed entry is tagged.
C21_TagEntriesAllOrNothing ==
    ret.op = "TagEntries" =>
        LET a == ret.args
            tags == {t \in prev.tags : t.api_id = a.tagID /\ t.user_id = ret.user}
            found(i) == {e \in prev.entries :
                            e.api_id = a.entries[i] /\ e.user_id = ret.user}
        IN IF a.entries = <<>>
           THEN ret.err = NilDBError /\ db = prev
           ELSE IF tags = {} \/ \E i \in 1..Len(a.entries) : found(i) = {}
           THEN ret.err.kind = "NotFound" /\ db.entry_tags = prev.entry_tags
           ELSE /\ ret.err = NilDBError
                /\ \A i \in 1..Len(a.entries) :
                     \E e \in found(i), t \in tags : <<e.id, t.id>> \in db.entry_tags

====
